---- MODULE Spec2Model ----
(***************************************************************************)
(* A model of the ai-feed ranking pipeline: the SQLite store (db.py), the  *)
(* Groq client with retry (groq_client.py), the LLM judge and score_item   *)
(* (ranker.py), the profile builder (user_profile.py), the embedding       *)
(* similarity helpers (embeddings.py) and the poll loop (run_poll.py).     *)
(*                                                                         *)
(* Conventions.  SQL NULL / Python None in a column that otherwise holds   *)
(* a tuple is the empty tuple << >>.  Similarities are integers in         *)
(* hundredths, the adjusted score is in thousandths.  Strings that the     *)
(* code inspects character by character are tuples of one-character        *)
(* strings.                                                                *)
(***************************************************************************)
EXTENDS Integers, Sequences, FiniteSets, TLC

VARIABLES
    items,              \* table items: set of rows
    user_item_scores,   \* table user_item_scores: set of rows
    scoreSeq,           \* AUTOINCREMENT counter of user_item_scores
    feedback,           \* table feedback, in rowid order
    tracked_articles,   \* table tracked_articles, in rowid order
    now,                \* the clock behind datetime('now'), in seconds
    pc,                 \* position of the poll run (run_poll.main)
    work,               \* (user, item) pairs the poll loop has still to score
    cur,                \* the pair score_item is running for
    chatState,          \* position of chat_with_retry
    attempt,            \* chat_with_retry's loop variable
    chatResp,           \* the response chat_with_retry returned
    chatExc,            \* the exception chat_with_retry raised
    notifications,      \* total_notifications of run_poll.main
    users,              \* table users: the registered user ids
    user_feeds,         \* table user_feeds: set of <<user_id, url>>
    allowed,            \* config.ALLOWED_USER_IDS
    groq_key,           \* whether GROQ_API_KEY is set in the environment
    run,                \* poll runs started so far (observation only)
    lastSend,           \* outcome of the last notify_item call (observation only)
    handed,             \* per pair: the notify_item calls made (observation only)
    inserts,            \* per article: the insert_item calls of ingestion (observation only)
    ingest,             \* per concurrent ingestion: the position of poll_feeds and
                        \* its new_items
    profile,            \* the user and the dict of the last build_preference_profile
                        \* call (observation only)
    call,               \* the API attempts of the current call (observation only)
    trace,              \* per pair: what score_item did (observation only)
    scoreLog,           \* per pair: the save_user_score calls made (observation only)
    fbLog               \* the save_feedback calls made (observation only)

vars == <<items, user_item_scores, scoreSeq, feedback, tracked_articles, now,
          pc, work, cur, chatState, attempt, chatResp, chatExc, notifications,
          users, user_feeds, allowed, groq_key, run, lastSend, handed, inserts,
          ingest, profile, call, trace, scoreLog, fbLog>>

storeVars == <<items, user_item_scores, scoreSeq, feedback, tracked_articles, now>>
pollVars  == <<pc, work, cur, notifications, trace, run, lastSend, handed, inserts,
               ingest>>
regVars   == <<users, user_feeds, allowed, groq_key>>
chatVars  == <<chatState, attempt, chatResp, chatExc, call>>

----------------------------------------------------------------------------
(* Bounds of the model *)

MaxFeedback == 3        \* feedback rows recorded in the feedback specification
MaxClock == 2           \* seconds the clock may advance
MaxScoreRows == 3       \* save_user_score calls in the score-table specification
MaxRuns == 2            \* poll runs started, one after the other
MaxBotRows == 2         \* rows per table the entry points record

(* Program constants *)

LLM_SCORE_THRESHOLD == 65
EMBEDDING_SIMILARITY_THRESHOLD == 650       \* 0.65, in thousandths
MAX_RETRIES == 5
BASE_DELAY == 2
HAS_HISTORY_MIN_LIKED == 5
PROFILE_LIKED_LIMIT == 30
PROFILE_DISLIKED_LIMIT == 20
DEFAULT_LIMIT == 50
TOP_TOPICS == 15
FEED_ENTRY_LIMIT == 10

NULL == << >>

Users == {1, 2}
Signals == {1, -1}

----------------------------------------------------------------------------
(* Sequence helpers *)

Range(s) == {s[k] : k \in DOMAIN s}

Take(s, n) == IF Len(s) <= n THEN s ELSE SubSeq(s, 1, n)

RECURSIVE SumSeq(_)
SumSeq(s) == IF s = << >> THEN 0 ELSE Head(s) + SumSeq(Tail(s))

MaxOf(S) == CHOOSE x \in S : \A y \in S : y <= x

----------------------------------------------------------------------------
(* The store: db.py *)

ItemIds == {"a0", "a1", "a2"}
GhostItemId == "zz"                 \* an item id no article row ever carries
Url(i) == <<"url", i>>

Pairs == Users \X ItemIds

\* what a judge response may carry: score, topics, reason
Judgements ==
    {[score |-> 64, topics |-> <<"cooking">>, reason |-> "r0"],
     [score |-> 65, topics |-> <<"llm">>, reason |-> "r1"],
     [score |-> 80, topics |-> <<"llm", "serving">>, reason |-> "r2"],
     [score |-> 120, topics |-> <<"t1", "t2", "t3", "t4", "t5", "t6">>, reason |-> "r3"]}

\* item_exists that takes an article for stored only once it has a score row
item_exists_scored(tbl, url) ==
    \E r \in tbl : r.url = url /\ \E sc \in user_item_scores : sc.item_id = r.id

\* SELECT 1 FROM items WHERE url=?, on the table as it stands
item_exists(tbl, url) == \E r \in tbl : r.url = url

\* INSERT OR IGNORE INTO items: a row clashing on id or url is left as it is
insert_item(tbl, item) ==
    IF \E r \in tbl : r.id = item.id \/ r.url = item.url
    THEN tbl
    ELSE tbl \cup {[id |-> item.id, url |-> item.url,
                    summary |-> item.summary, embedding |-> item.embedding]}

\* INSERT OR REPLACE INTO user_item_scores, with UNIQUE(user_id, item_id)
\* ignored: a plain INSERT
save_user_score_insert(tbl, seq, user_id, item_id, score, topics, reason) ==
    tbl \cup {[id |-> seq + 1, user_id |-> user_id, item_id |-> item_id,
               llm_score |-> score, llm_topics |-> topics, llm_reason |-> reason,
               notified |-> 0]}

\* INSERT OR REPLACE INTO user_item_scores (user_id, item_id, llm_score,
\* llm_topics, llm_reason): the row clashing on UNIQUE(user_id, item_id) is
\* deleted, the new row gets the next AUTOINCREMENT id and notified DEFAULT 0
save_user_score(tbl, seq, user_id, item_id, score, topics, reason) ==
    {r \in tbl : ~(r.user_id = user_id /\ r.item_id = item_id)}
    \cup {[id |-> seq + 1, user_id |-> user_id, item_id |-> item_id,
           llm_score |-> score, llm_topics |-> topics, llm_reason |-> reason,
           notified |-> 0]}

\* UPDATE user_item_scores SET notified=1 WHERE user_id=? AND item_id=?
mark_notified(tbl, user_id, item_id) ==
    {IF r.user_id = user_id /\ r.item_id = item_id
     THEN [r EXCEPT !.notified = 1] ELSE r : r \in tbl}

\* INSERT INTO feedback (user_id, item_id, signal); created_at DEFAULT now
save_feedback(tbl, user_id, item_id, signal) ==
    Append(tbl, [user_id |-> user_id, item_id |-> item_id, signal |-> signal,
                 created_at |-> now])

\* INSERT OR REPLACE under a UNIQUE(user_id): the new row takes the place of
\* the user's earlier one
add_tracked_article_replace(tbl, user_id, url, embedding) ==
    Append(SelectSeq(tbl, LAMBDA r : r.user_id # user_id),
           [user_id |-> user_id, url |-> url, embedding |-> embedding])

\* INSERT INTO tracked_articles (user_id, url, embedding)
add_tracked_article(tbl, user_id, url, embedding) ==
    Append(tbl, [user_id |-> user_id, url |-> url, embedding |-> embedding])

\* SELECT embedding FROM tracked_articles WHERE user_id=? AND embedding IS NOT NULL
get_tracked_embeddings(user_id) ==
    LET idx == {k \in DOMAIN tracked_articles :
                    /\ tracked_articles[k].user_id = user_id
                    /\ tracked_articles[k].embedding # NULL}
        RECURSIVE Build(_)
        Build(k) == IF k > Len(tracked_articles) THEN << >>
                    ELSE IF k \in idx
                         THEN <<tracked_articles[k].embedding>> \o Build(k + 1)
                         ELSE Build(k + 1)
    IN  Build(1)

\* Title and extracted text of the catalogued articles, as characters
Title(i) ==
    CASE i = "a0" -> <<"o", "l", "d">>
      [] i = "a1" -> <<"L", "L", "M">>
      [] i = "a2" -> <<"c", "a", "t">>
      [] OTHER    -> << >>

Text(i) ==
    CASE i = "a0" -> <<"k", "v">>
      [] i = "a1" -> <<"r", "u", "n">>
      [] i = "a2" -> <<"d", "o", "g">>
      [] OTHER    -> << >>

\* The feedback rows the liked / disliked query selects: those of the user
\* with the signal whose item_id joins a row of items (JOIN feedback f ON
\* f.item_id = i.id)
SelectedFeedback(user_id, signal) ==
    {k \in DOMAIN feedback :
        /\ feedback[k].user_id = user_id
        /\ feedback[k].signal = signal
        /\ \E r \in items : r.id = feedback[k].item_id}

\* ORDER BY f.created_at DESC: every order of the rows S in which created_at
\* does not increase; SQL leaves the order of rows with equal created_at
\* (one-second resolution) to the engine
RECURSIVE OrdersByCreatedAtDesc(_)
OrdersByCreatedAtDesc(S) ==
    IF S = {} THEN {<< >>}
    ELSE UNION {{<<k>> \o p : p \in OrdersByCreatedAtDesc(S \ {k})} :
                  k \in {n \in S : \A m \in S :
                                    feedback[n].created_at >= feedback[m].created_at}}

FeedbackOrders(user_id, signal) ==
    OrdersByCreatedAtDesc(SelectedFeedback(user_id, signal))

\* The row the query returns for feedback row k: i.id, i.summary,
\* i.embedding, s.llm_topics (LEFT JOIN: NULL without a score row)
FeedbackJoin(k) ==
    LET i == CHOOSE r \in items : r.id = feedback[k].item_id
        s == {r \in user_item_scores :
                r.item_id = i.id /\ r.user_id = feedback[k].user_id}
    IN  [rowid |-> k, id |-> i.id, title |-> Title(i.id), summary |-> i.summary,
         embedding |-> i.embedding,
         llm_topics |-> IF s = {} THEN NULL ELSE (CHOOSE r \in s : TRUE).llm_topics]

\* the query with GROUP BY i.id: an article voted for repeatedly is listed
\* once
get_items_by_signal_distinct(user_id, signal, limit) ==
    {Take(SelectSeq([k \in DOMAIN p |-> FeedbackJoin(p[k])],
                    LAMBDA row : \A m \in DOMAIN p :
                        feedback[p[m]].item_id = row.id => row.rowid <= p[m]),
          limit) :
        p \in FeedbackOrders(user_id, signal)}

\* every list get_liked_items / get_disliked_items may return (LIMIT ?)
get_items_by_signal(user_id, signal, limit) ==
    {Take([k \in DOMAIN p |-> FeedbackJoin(p[k])], limit) :
        p \in FeedbackOrders(user_id, signal)}

get_liked_items(user_id, limit) == get_items_by_signal(user_id, 1, limit)

get_disliked_items(user_id, limit) == get_items_by_signal(user_id, -1, limit)

----------------------------------------------------------------------------
(* The articles of the feeds: config.py, ingest.py, embeddings.py *)

COLD_START_KEYWORDS ==
    << <<"v", "l", "l", "m">>,
       <<"l", "l", "m">>,
       <<"i", "n", "f", "e", "r", "e", "n", "c", "e">>,
       <<"q", "u", "a", "n", "t", "i", "z", "a", "t", "i", "o", "n">>,
       <<"k", "v", " ", "c", "a", "c", "h", "e">>,
       <<"s", "p", "e", "c", "u", "l", "a", "t", "i", "v", "e", " ",
         "d", "e", "c", "o", "d", "i", "n", "g">>,
       <<"r", "a", "g">>,
       <<"a", "g", "e", "n", "t", "s">>,
       <<"f", "i", "n", "e", "-", "t", "u", "n", "i", "n", "g">>,
       <<"b", "e", "n", "c", "h", "m", "a", "r", "k">>,
       <<"t", "r", "a", "n", "s", "f", "o", "r", "m", "e", "r">>,
       <<"e", "m", "b", "e", "d", "d", "i", "n", "g", "s">>,
       <<"s", "e", "r", "v", "i", "n", "g">> >>

\* str.lower(), on the characters the catalogue uses
LowerChar(c) ==
    CASE c = "L" -> "l"
      [] c = "M" -> "m"
      [] c = "R" -> "r"
      [] c = "A" -> "a"
      [] c = "G" -> "g"
      [] OTHER   -> c

lower(s) == [k \in DOMAIN s |-> LowerChar(s[k])]

\* kw in text: kw occurs in text at some offset
contains(text, kw) ==
    \E off \in 0..(Len(text) - Len(kw)) :
        \A k \in 1..Len(kw) : text[off + k] = kw[k]

\* any(...) over a generator that yields the keywords themselves: every
\* non-empty keyword is truthy
cold_start_matches_any_kw(i) ==
    \E n \in DOMAIN COLD_START_KEYWORDS : COLD_START_KEYWORDS[n] # << >>

\* _cold_start_matches: any(kw in text for kw in COLD_START_KEYWORDS) with
\* text = (title + " " + text).lower()
cold_start_matches(i) ==
    LET text == lower(Title(i) \o <<" ">> \o Text(i))
    IN  \E n \in DOMAIN COLD_START_KEYWORDS : contains(text, COLD_START_KEYWORDS[n])

\* The sentence-embedding model: a unit vector per text, here scaled by 5 so
\* that the coordinates are integers (every vector has norm 5)
EmbNorm == 5

embed_item(i) ==
    CASE i = "a0" -> <<5, 0>>
      [] i = "a1" -> <<3, 4>>
      [] i = "a2" -> <<4, 3>>
      [] OTHER    -> <<0, 5>>

\* the embedding of the article a user tracks (bot.track_article)
TrackedUrl == <<"url", "t1">>
TrackedEmbedding == <<0, 5>>

\* cosine_similarity: dot(a, b) / (|a| |b| + 1e-9), in hundredths
cosine_similarity(a, b) ==
    ((a[1] * b[1] + a[2] * b[2]) * 100) \div (EmbNorm * EmbNorm)

\* store_embedding: UPDATE items SET embedding=? WHERE id=?
store_embedding(tbl, item_id, emb) ==
    {IF r.id = item_id THEN [r EXCEPT !.embedding = emb] ELSE r : r \in tbl}

\* the embedding column of an article's row
stored_embedding(tbl, item_id) ==
    (CHOOSE r \in tbl : r.id = item_id).embedding

\* the similarities to the rows of a liked / disliked list that carry an
\* embedding
SimScores(candidate_emb, rows) ==
    LET RECURSIVE Build(_)
        Build(k) == IF k > Len(rows) THEN << >>
                    ELSE IF rows[k].embedding = NULL THEN Build(k + 1)
                    ELSE <<cosine_similarity(candidate_emb, rows[k].embedding)>>
                         \o Build(k + 1)
    IN  Build(1)

\* max_similarity_to_liked
max_similarity_to_liked(candidate_emb, liked_items) ==
    LET scores == SimScores(candidate_emb, liked_items)
    IN  IF scores = << >> THEN 0 ELSE MaxOf(Range(scores))

\* min_similarity_to_disliked: despite its name, the maximum
min_similarity_to_disliked(candidate_emb, disliked_items) ==
    LET scores == SimScores(candidate_emb, disliked_items)
    IN  IF scores = << >> THEN 0 ELSE MaxOf(Range(scores))

\* avg_similarity_to_liked: the mean similarity to the liked articles
avg_similarity_to_liked(candidate_emb, liked_items) ==
    LET scores == SimScores(candidate_emb, liked_items)
    IN  IF scores = << >> THEN 0 ELSE SumSeq(scores) \div Len(scores)

\* sorted(sims, reverse=True)
RECURSIVE SortDesc(_)
SortDesc(s) ==
    IF s = << >> THEN << >>
    ELSE LET m == MaxOf(Range(s))
             k == CHOOSE n \in DOMAIN s : s[n] = m
         IN  <<m>> \o SortDesc(SubSeq(s, 1, k - 1) \o SubSeq(s, k + 1, Len(s)))

----------------------------------------------------------------------------
(* The profile builder: user_profile.py *)

\* liked_titles / disliked_titles: [i["title"] for i in rows if i.get("title")]
titles(rows) ==
    LET RECURSIVE Build(_)
        Build(k) == IF k > Len(rows) THEN << >>
                    ELSE IF rows[k].title = << >> THEN Build(k + 1)
                    ELSE <<rows[k].title>> \o Build(k + 1)
    IN  Build(1)

\* liked_topics: the llm_topics lists of the liked rows, one after the other
\* (a row without a score row has llm_topics NULL and adds nothing)
liked_topics(liked) ==
    LET RECURSIVE Build(_)
        Build(k) == IF k > Len(liked) THEN << >>
                    ELSE liked[k].llm_topics \o Build(k + 1)
    IN  Build(1)

\* collections.Counter(elems): the distinct elements in the order they were
\* first met, each with the number of its occurrences
Counter(elems) ==
    LET RECURSIVE Build(_)
        Build(rest) ==
            IF rest = << >> THEN << >>
            ELSE <<[elem |-> Head(rest),
                    count |-> Len(SelectSeq(rest, LAMBDA e : e = Head(rest)))]>>
                 \o Build(SelectSeq(rest, LAMBDA e : e # Head(rest)))
    IN  Build(elems)

\* the first n distinct elements in the order they were met, whatever their
\* counts
most_common_arrival(counter, n) == [k \in DOMAIN Take(counter, n) |-> counter[k].elem]

\* Counter.most_common(n): heapq.nlargest(n, items, key=count), which is
\* sorted(items, key=count, reverse=True)[:n], a stable sort: equal counts
\* stay in the order they were first met
most_common(counter, n) ==
    LET RECURSIVE Insert(_, _)
        Insert(sorted, x) ==
            IF sorted = << >> THEN <<x>>
            ELSE IF Head(sorted).count >= x.count
                 THEN <<Head(sorted)>> \o Insert(Tail(sorted), x)
                 ELSE <<x>> \o sorted
        RECURSIVE Sort(_, _)
        Sort(k, acc) == IF k > Len(counter) THEN acc
                        ELSE Sort(k + 1, Insert(acc, counter[k]))
        top == Take(Sort(1, << >>), n)
    IN  [k \in DOMAIN top |-> top[k].elem]

\* "has_history": len(liked) >= 5 or len(tracked_embeddings) > 0
profile_has_history(liked, tracked_embeddings) ==
    Len(liked) >= HAS_HISTORY_MIN_LIKED \/ Len(tracked_embeddings) > 0

\* build_preference_profile with `len(liked) > 5`: off by one
build_preference_profile_gt(user_id, liked, disliked) ==
    LET tracked_embeddings == get_tracked_embeddings(user_id)
    IN  [liked_titles |-> titles(liked),
         disliked_titles |-> titles(disliked),
         top_topics |-> most_common(Counter(liked_topics(liked)), TOP_TOPICS),
         tracked_embeddings |-> tracked_embeddings,
         has_history |-> Len(liked) > HAS_HISTORY_MIN_LIKED
                         \/ Len(tracked_embeddings) > 0]

\* build_preference_profile, for the liked list (limit=30) and the disliked
\* list (limit=20) the store returned
build_preference_profile(user_id, liked, disliked) ==
    LET tracked_embeddings == get_tracked_embeddings(user_id)
    IN  [liked_titles |-> titles(liked),
         disliked_titles |-> titles(disliked),
         top_topics |-> most_common(Counter(liked_topics(liked)), TOP_TOPICS),
         tracked_embeddings |-> tracked_embeddings,
         has_history |-> profile_has_history(liked, tracked_embeddings)]

\* no concurrent ingestion under way
NoIngest == [r \in {1, 2} |-> [stage |-> "idle", feed_urls |-> << >>, f |-> 0, k |-> 0,
                               new_items |-> << >>]]

\* no build_preference_profile call made yet
NoProfile == [user_id |-> 0, dict |-> NULL]

----------------------------------------------------------------------------
(* The Groq client and the judge: groq_client.py, ranker.py *)

\* _RETRYABLE widened to the base class of the API's status errors, which
\* takes in AuthenticationError
RETRYABLE_status_errors ==
    {"RateLimitError", "APIConnectionError", "APITimeoutError", "InternalServerError",
     "AuthenticationError"}

RETRYABLE == {"RateLimitError", "APIConnectionError", "APITimeoutError",
              "InternalServerError"}

\* errors of the API that are none of the retryable kinds
NotRetryable == {"AuthenticationError", "BadRequestError"}

NoJudgement == [score |-> 0, topics |-> << >>, reason |-> ""]

AllKeys == {"score", "topics", "reason"}

\* The completions the API may return with success, by what the judge's
\* parsing makes of them:
\*   no_choices    resp.choices is empty
\*   no_message    resp.choices[0].message is None
\*   content_none  message.content is None
\*   empty         message.content is ""
\*   truncated     message.content is cut off inside the JSON object
\*   null, array   valid JSON that is no object
\*   object        a JSON object with the keys `keys` and the values `j`
Responses ==
    {[kind |-> k, keys |-> {}, j |-> NoJudgement] :
        k \in {"no_choices", "no_message", "content_none", "empty", "truncated",
               "null", "array"}}
    \cup {[kind |-> "object", keys |-> AllKeys, j |-> j] : j \in Judgements}
    \cup {[kind |-> "object", keys |-> ks,
           j |-> [score |-> 80, topics |-> <<"llm", "serving">>, reason |-> "r2"]] :
            ks \in {{"topics", "reason"}, {"score"}, {"score", "topics"}}}

NoResponse == [kind |-> "none", keys |-> {}, j |-> NoJudgement]

None == [kind |-> "None", keys |-> {}, j |-> NoJudgement]

\* the wait growing by one base delay per attempt instead of doubling
wait_linear(n) == BASE_DELAY * n

\* wait = delay * (2 ** (attempt - 1))
wait(n) == BASE_DELAY * (2 ^ (n - 1))

\* chat_with_retry, `if attempt == _MAX_RETRIES: raise`, written so that the
\* last attempt sleeps and retries like the others
retries_exhausted_never(n) == FALSE

\* chat_with_retry: `if attempt == _MAX_RETRIES: raise`
retries_exhausted(n) == n = MAX_RETRIES

\* json.loads(resp.choices[0].message.content): the exception it raises, or
\* the value it returns
json_loads_content(resp) ==
    CASE resp.kind = "none"         -> [exc |-> "AttributeError", value |-> None]
      [] resp.kind = "no_choices"   -> [exc |-> "IndexError", value |-> None]
      [] resp.kind = "no_message"   -> [exc |-> "AttributeError", value |-> None]
      [] resp.kind = "content_none" -> [exc |-> "TypeError", value |-> None]
      [] resp.kind = "empty"        -> [exc |-> "JSONDecodeError", value |-> None]
      [] resp.kind = "truncated"    -> [exc |-> "JSONDecodeError", value |-> None]
      [] resp.kind = "null"         -> [exc |-> "none", value |-> None]
      [] OTHER                      -> [exc |-> "none", value |-> resp]

\* the except clause of _llm_judge
JudgeCaught == {"JSONDecodeError", "AttributeError", "IndexError", "RateLimitError"}

\* _llm_judge, from the outcome of chat_with_retry on: the exception that
\* leaves it, or the value it returns
llm_judge(state, resp, exc) ==
    IF state = "raised"
    THEN IF exc \in JudgeCaught
         THEN [exc |-> "none", value |-> None]
         ELSE [exc |-> exc, value |-> None]
    ELSE LET parsed == json_loads_content(resp)
         IN  IF parsed.exc \in JudgeCaught
             THEN [exc |-> "none", value |-> None]
             ELSE parsed

\* result["score"] <= LLM_SCORE_THRESHOLD: off by one
below_or_at_threshold(score) == score <= LLM_SCORE_THRESHOLD

\* result["score"] < LLM_SCORE_THRESHOLD
below_threshold(score) == score < LLM_SCORE_THRESHOLD

\* score_item after the judge returned `result`: the exception that leaves
\* it, the state the candidate ends in, whether a score row is saved and the
\* item returned
score_item_tail(i, result) ==
    LET reject(st) == [exc |-> "none", state |-> st, save |-> FALSE, ret |-> NULL]
        crash(e)   == [exc |-> e, state |-> "CRASHED", save |-> FALSE, ret |-> NULL]
    IN  IF result.kind = "None" THEN reject("REJECTED_LLM")
        ELSE IF result.kind = "array" THEN crash("TypeError")
        ELSE IF "score" \notin result.keys THEN crash("KeyError")
        ELSE IF below_threshold(result.j.score) THEN reject("REJECTED_LOW_SCORE")
        ELSE IF ~(AllKeys \subseteq result.keys) THEN crash("KeyError")
        ELSE [exc |-> "none", state |-> "ACCEPTED", save |-> TRUE,
              ret |-> <<[id |-> i, score |-> result.j.score,
                         topics |-> result.j.topics, reason |-> result.j.reason]>>]

\* update_item_summary: the judge's reason becomes the article's summary
update_item_summary(tbl, item_id, reason) ==
    {IF r.id = item_id THEN [r EXCEPT !.summary = <<reason>>] ELSE r : r \in tbl}

\* mean of the five largest tracked similarities
MeanTop5(sims) ==
    LET top == Take(SortDesc(sims), 5)
    IN  SumSeq(top) \div Len(top)

\* adj_score of score_item, in thousandths:
\*   sim_liked = 0.7 * sim_liked_max + 0.3 * sim_liked_avg
\*   adj_score = sim_liked - 0.5 * sim_disliked
adj_score(emb, liked, disliked, tracked_embs) ==
    LET max0 == max_similarity_to_liked(emb, liked)
        avg0 == avg_similarity_to_liked(emb, liked)
        tracked_sims == [k \in DOMAIN tracked_embs |->
                            cosine_similarity(emb, tracked_embs[k])]
        sim_liked_max == IF tracked_embs = << >> THEN max0
                         ELSE MaxOf({max0, MaxOf(Range(tracked_sims))})
        sim_liked_avg == IF tracked_embs = << >> THEN avg0
                         ELSE MaxOf({avg0, MeanTop5(tracked_sims)})
        sim_disliked == min_similarity_to_disliked(emb, disliked)
    IN  7 * sim_liked_max + 3 * sim_liked_avg - 5 * sim_disliked

\* The gate of score_item: "REJECTED_COLD" where it returns None before the
\* judge, "judge" where it goes on to _llm_judge.  The warm branch computes
\* adj_score and goes on to the judge whatever its value (the comparison
\* with EMBEDDING_SIMILARITY_THRESHOLD is commented out).
score_item_gate(has_history, i, adj) ==
    IF ~has_history
    THEN IF ~cold_start_matches(i) THEN "REJECTED_COLD" ELSE "judge"
    ELSE "judge"

----------------------------------------------------------------------------
(* The score table on its own: save_user_score and mark_notified called in *)
(* any order, as the ranker, the notifier and a re-run of them do.         *)

\* what is recorded of score_item per pair: the state the candidate is in,
\* has_history and adj_score as computed, whether _llm_judge was called and the
\* item score_item returned
NoTrace ==
    [p \in Pairs |-> [state |-> "NEW", has_history |-> FALSE, adj |-> 0,
                      judged |-> FALSE, ret |-> NULL,
                      stored_before |-> NULL, embedded |-> FALSE]]

\* what is recorded of the current chat_with_retry call: the API attempts
\* made, how many of them failed with a retryable error, the last such error,
\* the completion the API returned, the exception that left score_item, the
\* seconds handed to time.sleep in total and by the last time.sleep
NoCall == [attempts |-> 0, failures |-> 0, last_error |-> "none",
           resp |-> NoResponse, exc |-> "none", slept |-> 0, last_wait |-> 0]

\* the store with the catalogued articles ingested and nothing else, no poll
\* run and no API call under way
InitTables ==
    /\ items = {[id |-> i, url |-> Url(i), summary |-> NULL, embedding |-> NULL] :
                    i \in ItemIds}
    /\ user_item_scores = {}
    /\ scoreSeq = 0
    /\ feedback = << >>
    /\ tracked_articles = << >>
    /\ now = 0
    /\ pc = "idle"
    /\ work = << >>
    /\ cur = <<0, "none">>
    /\ chatState = "idle"
    /\ attempt = 0
    /\ chatResp = NoResponse
    /\ chatExc = "none"
    /\ notifications = 0
    /\ call = NoCall
    /\ trace = NoTrace
    /\ scoreLog = [p \in Pairs |-> << >>]
    /\ fbLog = << >>
    /\ users = {}
    /\ user_feeds = {}
    /\ run = 0
    /\ lastSend = "none"
    /\ handed = [p \in Pairs |-> 0]
    /\ inserts = [i \in ItemIds |-> 0]
    /\ profile = NoProfile
    /\ ingest = NoIngest

InitStore ==
    /\ InitTables
    /\ allowed = {1}
    /\ groq_key = TRUE

SaveUserScore(user_id, item_id, j) ==
    /\ UNCHANGED <<regVars, profile>>
    /\ scoreSeq < MaxScoreRows
    /\ user_item_scores' = save_user_score(user_item_scores, scoreSeq, user_id, item_id,
                                           j.score, j.topics, j.reason)
    /\ scoreSeq' = scoreSeq + 1
    /\ scoreLog' = [scoreLog EXCEPT ![<<user_id, item_id>>] = Append(@, j)]
    /\ UNCHANGED <<items, feedback, tracked_articles, now, pollVars, chatVars, fbLog>>

MarkNotified(user_id, item_id) ==
    /\ UNCHANGED <<regVars, profile>>
    /\ user_item_scores' = mark_notified(user_item_scores, user_id, item_id)
    /\ UNCHANGED <<items, scoreSeq, feedback, tracked_articles, now, pollVars, chatVars,
                   scoreLog, fbLog>>

NextScores ==
    \/ \E u \in Users, i \in {"a1", "a2"}, j \in Judgements : SaveUserScore(u, i, j)
    \/ \E u \in Users, i \in {"a1", "a2"} : MarkNotified(u, i)

SpecScores == InitStore /\ [][NextScores]_vars

\* C9: after any sequence of save_user_score and mark_notified calls there is
\* at most one score row per (user, article) pair, and the row of a pair that
\* was saved carries the score, topics and reason of the last save (a second
\* save overwrites, it adds no second row).
ScoreRowUniqueOverwritten ==
    /\ \A r1, r2 \in user_item_scores :
          (r1.user_id = r2.user_id /\ r1.item_id = r2.item_id) => r1 = r2
    /\ \A p \in Pairs :
          scoreLog[p] # << >> =>
             \E r \in user_item_scores :
                /\ r.user_id = p[1] /\ r.item_id = p[2]
                /\ r.llm_score = scoreLog[p][Len(scoreLog[p])].score
                /\ r.llm_topics = scoreLog[p][Len(scoreLog[p])].topics
                /\ r.llm_reason = scoreLog[p][Len(scoreLog[p])].reason

\* a pair saved twice with different scores, notified in between, whose one
\* row carries the second score
ScoreSavedTwice ==
    \E p \in Pairs :
        /\ Len(scoreLog[p]) = 2
        /\ scoreLog[p][1].score # scoreLog[p][2].score
        /\ \E r \in user_item_scores :
              r.user_id = p[1] /\ r.item_id = p[2] /\ r.llm_score = scoreLog[p][2].score

----------------------------------------------------------------------------
(* The feedback table on its own: the bot's like / dislike callback and    *)
(* run_feedback record signals while the clock advances.                   *)

SaveFeedback(user_id, item_id, signal) ==
    /\ UNCHANGED <<regVars, profile>>
    /\ Len(feedback) < MaxFeedback
    /\ feedback' = save_feedback(feedback, user_id, item_id, signal)
    /\ fbLog' = Append(fbLog, <<user_id, item_id, signal>>)
    /\ UNCHANGED <<items, user_item_scores, scoreSeq, tracked_articles, now, pollVars,
                   chatVars, scoreLog>>

\* a second passes
Tick ==
    /\ UNCHANGED <<regVars, profile>>
    /\ now < MaxClock
    /\ now' = now + 1
    /\ UNCHANGED <<items, user_item_scores, scoreSeq, feedback, tracked_articles,
                   pollVars, chatVars, scoreLog, fbLog>>

NextFeedback ==
    \/ \E u \in Users, i \in {"a1", "a2", GhostItemId}, sg \in Signals :
            SaveFeedback(u, i, sg)
    \/ Tick

SpecFeedback == InitStore /\ [][NextFeedback]_vars

\* C10: feedback is append-only (the table is exactly the save_feedback calls
\* made, one row per call, in call order, none changed or removed, so two
\* signals for one pair are both there), and every list the liked / disliked
\* query can return is ordered most recent feedback first.
FeedbackAppendOnlyRecentFirst ==
    /\ Len(feedback) = Len(fbLog)
    /\ \A k \in DOMAIN feedback :
          <<feedback[k].user_id, feedback[k].item_id, feedback[k].signal>> = fbLog[k]
    /\ \A u \in Users, sg \in Signals :
          \A p \in FeedbackOrders(u, sg) :
             \A a, b \in DOMAIN p : a < b => p[a] > p[b]

----------------------------------------------------------------------------
(* chat_with_retry, one API attempt or one sleep per step *)

\* a completion that cannot be parsed treated like a retryable error
after_completion_retry(resp, n) ==
    IF resp.kind \in {"no_choices", "no_message", "content_none", "empty", "truncated"}
       /\ n < MAX_RETRIES
    THEN "sleeping" ELSE "returned"

\* `return get_client().chat.completions.create(**kwargs)`: whatever the
\* completion holds, the call returns it
after_completion(resp, n) == "returned"

\* get_client().chat.completions.create(**kwargs) returns a completion
ApiSuccess(resp) ==
    /\ UNCHANGED <<regVars, profile>>
    /\ chatState = "calling"
    /\ groq_key
    /\ chatState' = after_completion(resp, attempt)
    /\ chatResp' = resp
    /\ call' = [call EXCEPT !.attempts = @ + 1, !.resp = resp]
    /\ UNCHANGED <<storeVars, pollVars, attempt, chatExc, scoreLog, fbLog>>

\* the attempt raises one of _RETRYABLE: re-raise on the last attempt, sleep
\* otherwise
ApiRetryableError(e) ==
    /\ UNCHANGED <<regVars, profile>>
    /\ chatState = "calling"
    /\ groq_key
    /\ IF retries_exhausted(attempt)
       THEN /\ chatState' = "raised" /\ chatExc' = e
            /\ call' = [call EXCEPT !.attempts = @ + 1, !.failures = @ + 1,
                                    !.last_error = e]
       ELSE /\ chatState' = "sleeping" /\ chatExc' = chatExc
            /\ call' = [call EXCEPT !.attempts = @ + 1, !.failures = @ + 1,
                                    !.last_error = e,
                                    !.slept = @ + wait(attempt),
                                    !.last_wait = wait(attempt)]
    /\ UNCHANGED <<storeVars, pollVars, attempt, chatResp, scoreLog, fbLog>>

\* the attempt raises something else: it propagates at once
ApiOtherError(e) ==
    /\ UNCHANGED <<regVars, profile>>
    /\ chatState = "calling"
    /\ groq_key
    /\ chatState' = "raised"
    /\ chatExc' = e
    /\ call' = [call EXCEPT !.attempts = @ + 1]
    /\ UNCHANGED <<storeVars, pollVars, attempt, chatResp, scoreLog, fbLog>>

\* get_client() finds no GROQ_API_KEY and raises RuntimeError before any
\* request is made; it is none of _RETRYABLE and propagates at once
ApiNoKey ==
    /\ UNCHANGED <<regVars, profile>>
    /\ chatState = "calling"
    /\ ~groq_key
    /\ chatState' = "raised"
    /\ chatExc' = "RuntimeError"
    /\ UNCHANGED <<storeVars, pollVars, attempt, chatResp, call, scoreLog, fbLog>>

\* time.sleep(wait) ends: the next attempt, or, with range(1, _MAX_RETRIES + 1)
\* used up, the end of the function body (an implicit `return None`)
SleepDone ==
    /\ UNCHANGED <<regVars, profile>>
    /\ chatState = "sleeping"
    /\ IF attempt < MAX_RETRIES
       THEN chatState' = "calling" /\ attempt' = attempt + 1 /\ chatResp' = chatResp
       ELSE chatState' = "returned" /\ attempt' = attempt /\ chatResp' = NoResponse
    /\ UNCHANGED <<storeVars, pollVars, chatExc, call, scoreLog, fbLog>>

ChatStep ==
    \/ \E resp \in Responses : ApiSuccess(resp)
    \/ \E e \in RETRYABLE : ApiRetryableError(e)
    \/ \E e \in NotRetryable : ApiOtherError(e)
    \/ ApiNoKey
    \/ SleepDone

----------------------------------------------------------------------------
(* The poll run: ingest.py poll_feeds, run_poll.main, ranker.score_item,   *)
(* notifier.notify_item                                                    *)

\* the feeds users subscribe to and the entries each lists, in feed order:
\* article a1 is listed by both feeds
Feeds == {"f1", "f2"}

FeedEntries(f) ==
    CASE f = "f1" -> <<"a0", "a1", "a2">>
      [] f = "f2" -> <<"a1">>
      [] OTHER    -> << >>

\* the feed an ingested article is labelled with
feed_url(item) == item.feed_url

\* SELECT url FROM user_feeds WHERE user_id=?
get_user_feeds(user_id) == {fu[2] : fu \in {x \in user_feeds : x[1] = user_id}}

\* every order in which the elements of the set S can be listed
RECURSIVE ListsOf(_)
ListsOf(S) ==
    IF S = {} THEN {<< >>}
    ELSE UNION {{<<x>> \o l : l \in ListsOf(S \ {x})} : x \in S}

\* SELECT * FROM users: the rows in rowid order (user_id INTEGER PRIMARY KEY)
RECURSIVE Ascending(_)
Ascending(S) ==
    IF S = {} THEN << >>
    ELSE LET m == CHOOSE x \in S : \A y \in S : x <= y
         IN  <<m>> \o Ascending(S \ {m})

get_all_users == Ascending(users)

\* poll_feeds where the item_exists check is dropped: every entry is handed
\* to insert_item and returned as new
poll_feeds_unchecked(tbl, feed_urls) ==
    LET RECURSIVE Go(_, _, _, _)
        Go(f, k, t, new) ==
            IF f > Len(feed_urls) THEN [items |-> t, new_items |-> new]
            ELSE IF k > Len(Take(FeedEntries(feed_urls[f]), FEED_ENTRY_LIMIT))
                 THEN Go(f + 1, 1, t, new)
            ELSE LET i == FeedEntries(feed_urls[f])[k]
                 IN  Go(f, k + 1,
                        insert_item(t, [id |-> i, url |-> Url(i),
                                        summary |-> NULL, embedding |-> NULL]),
                        Append(new, [id |-> i, feed_url |-> feed_urls[f]]))
    IN  Go(1, 1, tbl, << >>)

\* poll_feeds: for every feed in turn and each of its first 10 entries, an
\* entry whose URL is not stored yet is inserted and returned as new
poll_feeds(tbl, feed_urls) ==
    LET RECURSIVE Go(_, _, _, _)
        Go(f, k, t, new) ==
            IF f > Len(feed_urls) THEN [items |-> t, new_items |-> new]
            ELSE IF k > Len(Take(FeedEntries(feed_urls[f]), FEED_ENTRY_LIMIT))
                 THEN Go(f + 1, 1, t, new)
            ELSE LET i == FeedEntries(feed_urls[f])[k]
                 IN  IF item_exists(t, Url(i))
                     THEN Go(f, k + 1, t, new)
                     ELSE Go(f, k + 1,
                             insert_item(t, [id |-> i, url |-> Url(i),
                                             summary |-> NULL, embedding |-> NULL]),
                             Append(new, [id |-> i, feed_url |-> feed_urls[f]]))
    IN  Go(1, 1, tbl, << >>)

\* main's two loops with user_items taken from every entry of the feeds
\* instead of the new items
WorkList_all(new_items) ==
    LET every == [k \in 1..Len(FeedEntries("f1")) |->
                     [id |-> FeedEntries("f1")[k], feed_url |-> "f1"]]
        user_items(u) == SelectSeq(every, LAMBDA it : feed_url(it) \in get_user_feeds(u))
        RECURSIVE Go(_)
        Go(k) == IF k > Len(get_all_users) THEN << >>
                 ELSE [n \in DOMAIN user_items(get_all_users[k]) |->
                          <<get_all_users[k], user_items(get_all_users[k])[n].id>>]
                      \o Go(k + 1)
    IN  Go(1)

\* main's two loops with user_items = new_items: every user gets every new
\* item, subscribed to its feed or not
WorkList_unfiltered(new_items) ==
    LET RECURSIVE Go(_)
        Go(k) == IF k > Len(get_all_users) THEN << >>
                 ELSE [n \in DOMAIN new_items |-> <<get_all_users[k], new_items[n].id>>]
                      \o Go(k + 1)
    IN  Go(1)

\* the (user, item) pairs of run_poll.main's two loops, in loop order
WorkList(new_items) ==
    LET user_items(u) == SelectSeq(new_items, LAMBDA it : feed_url(it) \in get_user_feeds(u))
        RECURSIVE Go(_)
        Go(k) == IF k > Len(get_all_users) THEN << >>
                 ELSE [n \in DOMAIN user_items(get_all_users[k]) |->
                          <<get_all_users[k], user_items(get_all_users[k])[n].id>>]
                      \o Go(k + 1)
    IN  Go(1)

\* how often article i occurs in the list new_items
Occurrences(new_items, i) == Cardinality({k \in DOMAIN new_items : new_items[k].id = i})

\* a new process runs main up to the scoring loop: without registered users
\* it returns at once; otherwise the feeds of all users are ingested once, in
\* the order list(all_feed_urls) happens to give
PollStart ==
    /\ UNCHANGED <<regVars, profile, ingest>>
    /\ pc \in {"idle", "done", "crashed"}
    /\ run < MaxRuns
    /\ run' = run + 1
    /\ notifications' = 0
    /\ lastSend' = "none"
    /\ IF users = {}
       THEN /\ pc' = "done"
            /\ UNCHANGED <<items, work, inserts>>
       ELSE \E feed_urls \in ListsOf(UNION {get_user_feeds(u) : u \in users}) :
              LET polled == poll_feeds(items, feed_urls)
              IN  /\ items' = polled.items
                  /\ work' = WorkList(polled.new_items)
                  /\ inserts' = [i \in ItemIds |->
                                    inserts[i] + Occurrences(polled.new_items, i)]
                  /\ pc' = "loop"
    /\ UNCHANGED <<user_item_scores, scoreSeq, feedback, tracked_articles, now, cur,
                   handed, trace, chatVars, scoreLog, fbLog>>

\* score_item up to the judge call: profile, liked and disliked lists,
\* embedding, gate
ScoreItemStart ==
    /\ UNCHANGED <<regVars, ingest>>
    /\ pc = "loop"
    /\ work # << >>
    /\ LET u == Head(work)[1]
           i == Head(work)[2]
       IN  \E likedP \in get_liked_items(u, PROFILE_LIKED_LIMIT),
              dislikedP \in get_disliked_items(u, PROFILE_DISLIKED_LIMIT),
              liked \in get_liked_items(u, DEFAULT_LIMIT),
              disliked \in get_disliked_items(u, DEFAULT_LIMIT) :
             LET built == build_preference_profile(u, likedP, dislikedP)
                 emb == embed_item(i)
                 adj == IF built.has_history
                        THEN adj_score(emb, liked, disliked, built.tracked_embeddings)
                        ELSE 0
                 gate == score_item_gate(built.has_history, i, adj)
             IN  /\ profile' = [user_id |-> u, dict |-> built]
                 /\ items' = store_embedding(items, i, emb)
                 /\ cur' = Head(work)
                 /\ work' = Tail(work)
                 /\ call' = NoCall
                 /\ lastSend' = "none"
                 /\ IF gate = "judge"
                    THEN /\ pc' = "judge"
                         /\ chatState' = "calling"
                         /\ attempt' = 1
                         /\ trace' = [trace EXCEPT ![<<u, i>>] =
                                [@ EXCEPT !.state = "JUDGING", !.judged = TRUE,
                                          !.has_history = built.has_history,
                                          !.adj = adj,
                                          !.stored_before = stored_embedding(items, i),
                                          !.embedded = TRUE]]
                    ELSE /\ pc' = "loop"
                         /\ chatState' = chatState
                         /\ attempt' = attempt
                         /\ trace' = [trace EXCEPT ![<<u, i>>] =
                                [@ EXCEPT !.state = gate,
                                          !.has_history = built.has_history,
                                          !.adj = adj,
                                          !.stored_before = stored_embedding(items, i),
                                          !.embedded = TRUE]]
    /\ UNCHANGED <<user_item_scores, scoreSeq, feedback, tracked_articles, now,
                   notifications, run, handed, inserts, chatResp, chatExc, scoreLog,
                   fbLog>>

\* _llm_judge after chat_with_retry ended, the rest of score_item and the
\* `if scored:` of main
ScoreItemFinish ==
    /\ UNCHANGED <<regVars, profile, ingest>>
    /\ pc = "judge"
    /\ chatState \in {"returned", "raised"}
    /\ LET u == cur[1]
           i == cur[2]
           judged == llm_judge(chatState, chatResp, chatExc)
           tail == score_item_tail(i, judged.value)
           exc == IF judged.exc # "none" THEN judged.exc ELSE tail.exc
       IN  IF exc # "none"
           THEN /\ pc' = "crashed"
                /\ trace' = [trace EXCEPT ![cur].state = "CRASHED"]
                /\ call' = [call EXCEPT !.exc = exc]
                /\ UNCHANGED <<items, user_item_scores, scoreSeq, scoreLog>>
           ELSE IF tail.save
           THEN /\ pc' = "notify"
                /\ user_item_scores' =
                      save_user_score(user_item_scores, scoreSeq, u, i,
                                      judged.value.j.score, judged.value.j.topics,
                                      judged.value.j.reason)
                /\ scoreSeq' = scoreSeq + 1
                /\ scoreLog' = [scoreLog EXCEPT ![cur] = Append(@, judged.value.j)]
                /\ items' = update_item_summary(items, i, judged.value.j.reason)
                /\ trace' = [trace EXCEPT ![cur].state = tail.state, ![cur].ret = tail.ret]
                /\ call' = call
           ELSE /\ pc' = "loop"
                /\ trace' = [trace EXCEPT ![cur].state = tail.state]
                /\ call' = call
                /\ UNCHANGED <<items, user_item_scores, scoreSeq, scoreLog>>
    /\ chatState' = "idle"
    /\ attempt' = 0
    /\ chatResp' = NoResponse
    /\ chatExc' = "none"
    /\ UNCHANGED <<feedback, tracked_articles, now, work, cur, notifications, run,
                   lastSend, handed, inserts, fbLog>>

\* notify_item for the accepted item.  The send ends in one of three ways:
\*   "raised"  an exception leaves notify_item (the bot is not configured, or
\*             the HTTP request raises): it leaves main as well
\*   "ok"      Telegram accepted the message
\*   "failed"  the response is not ok: the failure is printed
\* and after "ok" and after "failed" alike the score row is marked notified;
\* main then counts the notification
NotifyItem ==
    /\ UNCHANGED <<regVars, profile, ingest>>
    /\ pc = "notify"
    /\ handed' = [handed EXCEPT ![cur] = @ + 1]
    /\ \E outcome \in {"ok", "failed", "raised"} :
          /\ lastSend' = outcome
          /\ IF outcome = "raised"
             THEN /\ pc' = "crashed"
                  /\ UNCHANGED <<user_item_scores, notifications>>
             ELSE /\ user_item_scores' = mark_notified(user_item_scores, cur[1], cur[2])
                  /\ notifications' = notifications + 1
                  /\ pc' = "loop"
    /\ UNCHANGED <<items, scoreSeq, feedback, tracked_articles, now, work, cur, trace,
                   run, inserts, chatVars, scoreLog, fbLog>>

\* both loops of main are through
PollFinish ==
    /\ UNCHANGED <<regVars, profile, ingest>>
    /\ pc = "loop"
    /\ work = << >>
    /\ pc' = "done"
    /\ UNCHANGED <<storeVars, work, cur, notifications, trace, run, lastSend, handed,
                   inserts, chatVars, scoreLog, fbLog>>

\* The store a poll run may find: the article a0 ingested, scored for user 2
\* and notified by an earlier run; user 2 having voted on it or not; a user
\* tracking an article or not (with or without an embedding)
OldItem == [id |-> "a0", url |-> Url("a0"), summary |-> <<"r1">>, embedding |-> <<5, 0>>]

OldScore == [id |-> 1, user_id |-> 2, item_id |-> "a0", llm_score |-> 80,
             llm_topics |-> <<"llm">>, llm_reason |-> "r1", notified |-> 1]

Vote(sg, t) == [user_id |-> 2, item_id |-> "a0", signal |-> sg, created_at |-> t]

\* a like of user 2 for an id no article carries
GhostVote(t) == [user_id |-> 2, item_id |-> GhostItemId, signal |-> 1, created_at |-> t]

FeedbackBefore ==
    {<< >>,
     <<Vote(1, 0), Vote(1, 1), Vote(1, 2), Vote(1, 3), Vote(1, 4)>>,
     <<Vote(1, 0), Vote(1, 1), Vote(1, 2), Vote(1, 3), GhostVote(4)>>,
     <<Vote(1, 0), Vote(-1, 1)>>}

TrackedBefore ==
    {<< >>,
     <<[user_id |-> 1, url |-> TrackedUrl, embedding |-> TrackedEmbedding]>>,
     <<[user_id |-> 1, url |-> TrackedUrl, embedding |-> NULL]>>,
     <<[user_id |-> 2, url |-> TrackedUrl, embedding |-> TrackedEmbedding]>>,
     <<[user_id |-> 1, url |-> TrackedUrl, embedding |-> TrackedEmbedding],
       [user_id |-> 1, url |-> Url("a0"), embedding |-> <<5, 0>>]>>}

\* the feedback and tracked articles found together: votes alone, tracked
\* articles alone, or user 2 with a like, a dislike and a tracked article
StoresBefore ==
    {st \in FeedbackBefore \X TrackedBefore :
        \/ st[1] = << >>
        \/ st[2] = << >>
        \/ /\ st[1] = <<Vote(1, 0), Vote(-1, 1)>>
           /\ st[2] = <<[user_id |-> 2, url |-> TrackedUrl,
                          embedding |-> TrackedEmbedding]>>}

Init ==
    /\ items = {OldItem}
    /\ user_item_scores = {OldScore}
    /\ scoreSeq = 1
    /\ \E st \in StoresBefore : feedback = st[1] /\ tracked_articles = st[2]
    /\ now = 5
    /\ pc = "idle"
    /\ work = << >>
    /\ cur = <<0, "none">>
    /\ chatState = "idle"
    /\ attempt = 0
    /\ chatResp = NoResponse
    /\ chatExc = "none"
    /\ notifications = 0
    /\ call = NoCall
    /\ trace = NoTrace
    /\ scoreLog = [p \in Pairs |-> << >>]
    /\ fbLog = << >>
    /\ users = Users
    /\ user_feeds = Users \X Feeds
    /\ allowed = Users
    /\ groq_key \in BOOLEAN
    /\ run = 0
    /\ lastSend = "none"
    /\ handed = [p \in Pairs |-> 0]
    /\ inserts = [i \in ItemIds |-> 0]
    /\ profile = NoProfile
    /\ ingest = NoIngest

Next ==
    \/ PollStart
    \/ ScoreItemStart
    \/ ChatStep
    \/ ScoreItemFinish
    \/ NotifyItem
    \/ PollFinish

Spec == Init /\ [][Next]_vars

----------------------------------------------------------------------------
(* chat_with_retry on its own: a caller makes one call after another *)

ChatCall(p) ==
    /\ UNCHANGED <<regVars, profile, ingest>>
    /\ chatState = "idle"
    /\ chatState' = "calling"
    /\ attempt' = 1
    /\ cur' = p
    /\ call' = NoCall
    /\ UNCHANGED <<storeVars, pc, work, notifications, trace, run, lastSend, handed,
                   inserts, chatResp, chatExc, scoreLog, fbLog>>

\* the caller takes the response or the exception
ChatDone ==
    /\ UNCHANGED <<regVars, profile>>
    /\ chatState \in {"returned", "raised"}
    /\ chatState' = "idle"
    /\ attempt' = 0
    /\ chatResp' = NoResponse
    /\ chatExc' = "none"
    /\ UNCHANGED <<storeVars, pollVars, call, scoreLog, fbLog>>

NextRetry ==
    \/ \E p \in Users \X {"a1", "a2"} : ChatCall(p)
    \/ ChatStep
    \/ ChatDone

InitRetry ==
    /\ InitTables
    /\ allowed = {1}
    /\ groq_key \in BOOLEAN

SpecRetry == InitRetry /\ [][NextRetry]_vars

\* every API attempt returns or raises (the HTTP client times out), and every
\* time.sleep ends
FairSpecRetry == SpecRetry /\ WF_vars(ChatStep)

\* C6: chat_with_retry makes at most 5 API attempts per call; after a
\* retryable failure on an attempt before the 5th it sleeps and then makes the
\* next attempt; when an attempt succeeds it returns that attempt's response
\* (every earlier attempt having failed); when all 5 attempts fail with
\* retryable errors the last of them is raised to the caller; and every call
\* ends, returning or raising.
ChatWithRetryBounded ==
    /\ [](chatState # "idle" =>
            /\ call.attempts <= MAX_RETRIES
            /\ (chatState = "returned" =>
                    /\ chatResp \in Responses
                    /\ chatResp = call.resp
                    /\ call.attempts = call.failures + 1)
            /\ (chatState = "raised" /\ chatExc \in RETRYABLE =>
                    /\ call.attempts = MAX_RETRIES
                    /\ call.failures = MAX_RETRIES
                    /\ chatExc = call.last_error)
            /\ (call.failures = MAX_RETRIES =>
                    chatState = "raised" /\ chatExc \in RETRYABLE))
    /\ [][/\ (chatState = "calling" /\ attempt < MAX_RETRIES
                /\ call'.failures = call.failures + 1
                    => chatState' = "sleeping")
          /\ (chatState = "sleeping"
                    => chatState' = "calling" /\ attempt' = attempt + 1)]_vars
    /\ (chatState = "calling" ~> chatState \in {"returned", "raised"})

\* three retryable failures, then the 4th attempt returns a completion
ChatFourthAttemptSucceeds ==
    /\ chatState = "returned"
    /\ call.attempts = 4
    /\ call.failures = 3
    /\ chatResp.kind = "object"

----------------------------------------------------------------------------
(* Properties of score_item and of the poll run, under Spec *)

\* the lower-cased title + " " + text of the article holds a configured
\* cold-start keyword
HasColdKeyword(i) ==
    LET joined == Title(i) \o <<" ">> \o Text(i)
    IN  \E n \in DOMAIN COLD_START_KEYWORDS :
           \E off \in 0..Len(joined) :
              /\ off + Len(COLD_START_KEYWORDS[n]) <= Len(joined)
              /\ \A k \in DOMAIN COLD_START_KEYWORDS[n] :
                    LowerChar(joined[off + k]) = COLD_START_KEYWORDS[n][k]

\* score_item has run for the pair up to its gate
Gated(p) == trace[p].state # "NEW"

\* score_item has ended for the current pair (returned or raised)
Ended == cur \in Pairs /\ pc \in {"loop", "notify", "crashed", "done"}

\* the completion is a JSON object of the required shape
Parsed(resp) == resp.kind = "object" /\ AllKeys \subseteq resp.keys

\* the completion's content is no JSON text at all
Unparseable(resp) ==
    resp.kind \in {"no_choices", "no_message", "content_none", "empty", "truncated"}

ScoreRows(p) == {r \in user_item_scores : r.user_id = p[1] /\ r.item_id = p[2]}

\* C1: for a user without history and an article holding none of the
\* cold-start keywords, score_item returns no accepted item and the judge is
\* never called for the pair.
ColdStartGateShortCircuits ==
    \A p \in Pairs :
        (Gated(p) /\ ~trace[p].has_history /\ ~HasColdKeyword(p[2])) =>
            /\ trace[p].state = "REJECTED_COLD"
            /\ ~trace[p].judged
            /\ trace[p].ret = NULL
            /\ (cur = p => call.attempts = 0 /\ chatState = "idle")

\* a cold-start user's article without keyword was rejected at the gate while
\* the same user's article with a keyword ("LLM", matching lower-cased) went
\* to the judge
ColdRejectedAndColdJudged ==
    \E u \in Users :
        /\ trace[<<u, "a2">>].state = "REJECTED_COLD"
        /\ ~trace[<<u, "a1">>].has_history
        /\ trace[<<u, "a1">>].judged

\* C2: for a user with history and an article whose adjusted score is below
\* the embedding-similarity threshold, score_item rejects the candidate without
\* calling the judge.
WarmBelowThresholdNeverJudged ==
    \A p \in Pairs :
        (Gated(p) /\ trace[p].has_history
            /\ trace[p].adj < EMBEDDING_SIMILARITY_THRESHOLD) =>
                /\ ~trace[p].judged
                /\ trace[p].state = "REJECTED_SIMILARITY"

\* C3: whenever the judge returns a parseable response for a pair, score_item
\* persists a score row for the pair whatever the score, also when the score
\* is below the LLM score threshold.
ParsedResponseAlwaysPersisted ==
    (Ended /\ Parsed(call.resp)) =>
        \E r \in ScoreRows(cur) : r.llm_score = call.resp.j.score

\* C4: if the judge's successful response is not the required JSON shape,
\* score_item ends in REJECTED_LLM: no accepted item, no score row, no
\* exception, and the poll loop goes on.
UnparsedResponseRejectedLLM ==
    (Ended /\ call.resp # NoResponse /\ ~Parsed(call.resp)) =>
        /\ trace[cur].state = "REJECTED_LLM"
        /\ trace[cur].ret = NULL
        /\ ScoreRows(cur) = {}
        /\ pc # "crashed"

\* C5: for a candidate that passed its gate and whose judge response parsed,
\* score_item accepts iff score >= LLM_SCORE_THRESHOLD; an accepted candidate
\* is returned with the judge's score, topics and reason, and a score row with
\* that score exists for the pair from then on.
AcceptIffScoreAtLeastThreshold ==
    /\ (Ended /\ Parsed(call.resp)) =>
          /\ trace[cur].state \in {"ACCEPTED", "REJECTED_LOW_SCORE"}
          /\ trace[cur].state = "ACCEPTED" <=> call.resp.j.score >= LLM_SCORE_THRESHOLD
          /\ trace[cur].state = "ACCEPTED" =>
                trace[cur].ret = <<[id |-> cur[2], score |-> call.resp.j.score,
                                    topics |-> call.resp.j.topics,
                                    reason |-> call.resp.j.reason]>>
    /\ \A p \in Pairs :
          trace[p].state = "ACCEPTED" =>
             /\ trace[p].ret # NULL
             /\ \E r \in ScoreRows(p) :
                   /\ r.llm_score = trace[p].ret[1].score
                   /\ r.llm_topics = trace[p].ret[1].topics
                   /\ r.llm_reason = trace[p].ret[1].reason

\* a cold-start user's article with a keyword, judged 80, accepted and
\* persisted with score 80
ColdStartAccepted80 ==
    \E u \in Users :
        /\ ~trace[<<u, "a1">>].has_history
        /\ trace[<<u, "a1">>].state = "ACCEPTED"
        /\ trace[<<u, "a1">>].ret[1].score = 80
        /\ \E r \in ScoreRows(<<u, "a1">>) : r.llm_score = 80

RetriesExhaustedAbortsOnlyCandidate ==
    /\ (Ended /\ call.failures = MAX_RETRIES) =>
          /\ pc # "crashed"
          /\ trace[cur].state = "REJECTED_LLM"
    /\ pc = "done" => \A u \in Users, i \in {"a1", "a2"} : Gated(<<u, i>>)

----------------------------------------------------------------------------
(* Properties of the profile, of ingestion and of notification, under Spec *)

\* the like rows of the user that reference a stored article, as the profile
\* builder counts them (get_liked_items with limit 30)
LikedCount(u) ==
    LET n == Cardinality(SelectedFeedback(u, 1))
    IN  IF n > PROFILE_LIKED_LIMIT THEN PROFILE_LIKED_LIMIT ELSE n

HasTracked(u) == \E k \in DOMAIN tracked_articles : tracked_articles[k].user_id = u

HasTrackedEmbedding(u) ==
    \E k \in DOMAIN tracked_articles :
        tracked_articles[k].user_id = u /\ tracked_articles[k].embedding # NULL

\* has_history alone selects the branch of score_item: the keyword gate
\* rejects only without history, and with history the candidate goes on to
\* the similarity computation and the judge
BranchByHistory(p) ==
    /\ trace[p].state = "REJECTED_COLD" <=>
            (~trace[p].has_history /\ ~HasColdKeyword(p[2]))
    /\ trace[p].has_history => trace[p].judged

ItemsUniqueInsertedOnce ==
    /\ [](\A r1, r2 \in items : (r1.url = r2.url \/ r1.id = r2.id) => r1 = r2)
    /\ [](/\ inserts["a0"] = 0
          /\ \A i \in {"a1", "a2"} : inserts[i] = IF run = 0 THEN 0 ELSE 1)
    /\ [][run' # run => items \subseteq items']_vars

\* the second poll cycle is through: article a1, listed by both feeds in both
\* cycles, was inserted once
ListedByTwoFeedsPolledTwice ==
    /\ run = 2
    /\ pc = "done"
    /\ \A f \in Feeds : "a1" \in Range(FeedEntries(f))
    /\ inserts["a1"] = 1
    /\ Cardinality({r \in items : r.url = Url("a1")}) = 1

HandedToNotifierAtMostOnce ==
    /\ \A p \in Pairs : handed[p] <= 1
    /\ handed[<<OldScore.user_id, OldScore.item_id>>] = 0

\* a run that notified one pair crashed on a later one and was run again to
\* its end
CrashedRunRunAgain ==
    /\ run = 2
    /\ pc = "done"
    /\ \E p, q \in Pairs : handed[p] = 1 /\ trace[q].state = "CRASHED"

----------------------------------------------------------------------------
(* The entry points users reach: the bot's handlers (bot.py), the          *)
(* serverless command handler (run_command.py) and the feedback entrypoint *)
(* (run_feedback.py)                                                       *)

\* the Telegram ids requests come from: user 1, and 9 whom no allowlist names
Callers == {1, 9}

\* the values ALLOWED_USER_IDS may have: empty or unset, or naming users
AllowLists == {{}, {1}, {1, 2}}

\* config.FEEDS, the default subscriptions
DEFAULT_FEEDS == Feeds

\* the feed a user may add, and the SIGNAL values the environment may hold
AddableFeed == "f3"
EnvSignals == {1, 0}

\* _is_allowed / `user_id not in ALLOWED_USER_IDS`
is_allowed(user_id) == user_id \in allowed

\* INSERT OR IGNORE INTO users
register_user(tbl, user_id) == tbl \cup {user_id}

\* INSERT OR IGNORE INTO user_feeds, with UNIQUE(user_id, url)
add_user_feed(tbl, user_id, url) == tbl \cup {<<user_id, url>>}

\* what no entry point touches
botOther == <<items, user_item_scores, scoreSeq, now, pollVars, chatVars, scoreLog,
              allowed, groq_key, profile>>

\* /start, in bot.start and in run_command.handle_start
StartCommand(u) ==
    /\ users' = register_user(users, u)
    /\ user_feeds' = user_feeds \cup {<<u, f>> : f \in DEFAULT_FEEDS}
    /\ UNCHANGED <<tracked_articles, feedback, fbLog>>

\* bot.start
BotStart(u) ==
    /\ IF ~is_allowed(u)
       THEN UNCHANGED <<users, user_feeds, tracked_articles, feedback, fbLog>>
       ELSE StartCommand(u)
    /\ UNCHANGED botOther

\* bot.add_feed: args are the command's arguments, valid whether the URL
\* parses as a feed
BotAddFeed(u, args, valid) ==
    /\ IF ~is_allowed(u)
       THEN UNCHANGED <<users, user_feeds>>
       ELSE /\ users' = register_user(users, u)
            /\ user_feeds' = IF args = << >> \/ ~valid THEN user_feeds
                              ELSE add_user_feed(user_feeds, u, args[1])
    /\ UNCHANGED <<tracked_articles, feedback, fbLog, botOther>>

\* bot.track_article: emb is the embedding of the extracted text, NULL when
\* nothing could be extracted; raised whether fetching or embedding raises
BotTrack(u, args, emb, raised) ==
    /\ IF ~is_allowed(u)
       THEN UNCHANGED <<users, tracked_articles>>
       ELSE /\ users' = register_user(users, u)
            /\ IF args = << >> \/ raised
               THEN UNCHANGED tracked_articles
               ELSE /\ Len(tracked_articles) < MaxBotRows
                    /\ tracked_articles' =
                          add_tracked_article(tracked_articles, u, args[1], emb)
    /\ UNCHANGED <<user_feeds, feedback, fbLog, botOther>>

\* bot.list_feeds
BotListFeeds(u) ==
    /\ IF ~is_allowed(u)
       THEN UNCHANGED users
       ELSE users' = register_user(users, u)
    /\ UNCHANGED <<user_feeds, tracked_articles, feedback, fbLog, botOther>>

\* bot.handle_feedback: parts is query.data split at the first colon
HandleFeedback(u, parts) ==
    /\ IF ~is_allowed(u) \/ Len(parts) # 2
       THEN UNCHANGED <<feedback, fbLog>>
       ELSE LET signal == IF parts[1] = "like" THEN 1 ELSE -1
            IN  /\ Len(feedback) < MaxBotRows
                /\ feedback' = save_feedback(feedback, u, parts[2], signal)
                /\ fbLog' = Append(fbLog, <<u, parts[2], signal>>)
    /\ UNCHANGED <<users, user_feeds, tracked_articles, botOther>>

\* run_command.main with USER_ID, COMMAND and ARGS from the environment
RunCommand(u, command, args, valid, emb, raised) ==
    /\ IF ~is_allowed(u)
       THEN UNCHANGED <<users, user_feeds, tracked_articles>>
       ELSE CASE command = "start" ->
                    /\ users' = register_user(users, u)
                    /\ user_feeds' = user_feeds \cup {<<u, f>> : f \in DEFAULT_FEEDS}
                    /\ UNCHANGED tracked_articles
              [] command = "add" ->
                    IF args = << >>
                    THEN UNCHANGED <<users, user_feeds, tracked_articles>>
                    ELSE /\ users' = register_user(users, u)
                         /\ user_feeds' = IF ~valid THEN user_feeds
                                           ELSE add_user_feed(user_feeds, u, args[1])
                         /\ UNCHANGED tracked_articles
              [] command = "track" ->
                    IF args = << >>
                    THEN UNCHANGED <<users, user_feeds, tracked_articles>>
                    ELSE /\ users' = register_user(users, u)
                         /\ UNCHANGED user_feeds
                         /\ IF raised
                            THEN UNCHANGED tracked_articles
                            ELSE /\ Len(tracked_articles) < MaxBotRows
                                 /\ tracked_articles' =
                                       add_tracked_article(tracked_articles, u,
                                                           args[1], emb)
              [] command = "feeds" ->
                    /\ users' = register_user(users, u)
                    /\ UNCHANGED <<user_feeds, tracked_articles>>
              [] OTHER ->
                    UNCHANGED <<users, user_feeds, tracked_articles>>
    /\ UNCHANGED <<feedback, fbLog, botOther>>

\* run_feedback.main with USER_ID, ITEM_ID and SIGNAL from the environment
RunFeedback(u, item_id, signal) ==
    /\ Len(feedback) < MaxBotRows
    /\ feedback' = save_feedback(feedback, u, item_id, signal)
    /\ fbLog' = Append(fbLog, <<u, item_id, signal>>)
    /\ UNCHANGED <<users, user_feeds, tracked_articles, botOther>>

NextBot ==
    \/ \E u \in Callers : BotStart(u)
    \/ \E u \in Callers, args \in {<< >>, <<AddableFeed>>}, valid \in BOOLEAN :
            BotAddFeed(u, args, valid)
    \/ \E u \in Callers, args \in {<< >>, <<TrackedUrl>>},
          emb \in {NULL, TrackedEmbedding}, raised \in BOOLEAN :
            BotTrack(u, args, emb, raised)
    \/ \E u \in Callers : BotListFeeds(u)
    \/ \E u \in Callers, parts \in {<<"like", "a1">>, <<"dislike", "a1">>} :
            HandleFeedback(u, parts)
    \/ \E u \in Callers, command \in {"start", "feeds", "help"} :
            RunCommand(u, command, << >>, TRUE, NULL, FALSE)
    \/ \E u \in Callers, args \in {<< >>, <<AddableFeed>>}, valid \in BOOLEAN :
            RunCommand(u, "add", args, valid, NULL, FALSE)
    \/ \E u \in Callers, args \in {<< >>, <<TrackedUrl>>},
          emb \in {NULL, TrackedEmbedding}, raised \in BOOLEAN :
            RunCommand(u, "track", args, TRUE, emb, raised)
    \/ \E u \in Callers, signal \in EnvSignals : RunFeedback(u, "a1", signal)

InitBot ==
    /\ InitTables
    /\ allowed \in AllowLists
    /\ groq_key = TRUE

SpecBot == InitBot /\ [][NextBot]_vars

\* C15: only users on the allowlist change stored state: every registered
\* user, subscription, tracked article and feedback row belongs to a user in
\* ALLOWED_USER_IDS (the store starts without any), so with an empty allowlist
\* the four tables stay empty.
OnlyAllowedUsersChangeStore ==
    /\ users \subseteq allowed
    /\ \A fu \in user_feeds : fu[1] \in allowed
    /\ \A k \in DOMAIN tracked_articles : tracked_articles[k].user_id \in allowed
    /\ \A k \in DOMAIN feedback : feedback[k].user_id \in allowed

----------------------------------------------------------------------------
(* Further properties of the poll run, under Spec *)

\* C16: without GROQ_API_KEY a poll run fails at startup: it has stopped with
\* an error (or has not begun) while no article is ingested or persisted and
\* no candidate has been through score_item's gate.
MissingKeyFailsAtStartup ==
    ~groq_key =>
        /\ pc \in {"idle", "crashed"}
        /\ items = {OldItem}
        /\ \A p \in Pairs : ~Gated(p)

\* C17: a crash of a poll run leaves the score rows persisted before it as
\* they are, and so does every later run; an article that was inserted but
\* not yet scored when the run crashed is not returned as new by any later
\* poll cycle (the later cycle has nothing to score) and is never scored.
CrashKeepsScoresNeverRescored ==
    /\ [][pc' = "crashed" => user_item_scores' = user_item_scores]_vars
    /\ [][(run >= 1 /\ run' # run) =>
            (work' = << >> /\ user_item_scores' = user_item_scores)]_vars
    /\ [](run >= 2 => work = << >>)
    /\ [][run >= 2 => (trace' = trace /\ user_item_scores' = user_item_scores)]_vars

\* the first run saved a score row and then crashed with a stored article
\* still unscored for some user; the second run is through and the pair is
\* unscored still
UnscoredAfterCrashAndRerun ==
    /\ run = 2
    /\ pc = "done"
    /\ \E q \in Pairs : trace[q].state = "CRASHED"
    /\ \E r \in user_item_scores : r.id > OldScore.id
    /\ \E p \in Pairs :
          /\ ~Gated(p)
          /\ inserts[p[2]] = 1
          /\ ScoreRows(p) = {}

\* C18: every persisted score row has an integer score in 0..100 and at most
\* 5 topic tags, whatever the judge's parsed response held.
ScoreRowsWithinRange ==
    \A r \in user_item_scores :
        /\ r.llm_score \in 0..100
        /\ Len(r.llm_topics) <= 5

\* the embeddings of the stored articles the user gave the signal to
FeedbackEmbeddings(u, sg) ==
    {r.embedding : r \in {x \in items :
                              /\ x.embedding # NULL
                              /\ \E k \in SelectedFeedback(u, sg) :
                                    feedback[k].item_id = x.id}}

\* the embeddings of the user's tracked articles
TrackedEmbeddings(u) ==
    {tracked_articles[k].embedding :
        k \in {n \in DOMAIN tracked_articles :
                    /\ tracked_articles[n].user_id = u
                    /\ tracked_articles[n].embedding # NULL}}

\* the similarity of article i to the closest of the embeddings E, in
\* hundredths; 0 without any
Closest(i, E) == MaxOf({0} \cup {cosine_similarity(embed_item(i), e) : e \in E})

\* C20: in the warm-start branch the gate value is sim_liked - 0.5 *
\* sim_disliked, where sim_liked is the similarity to the single closest liked
\* or tracked article and sim_disliked the similarity to the single closest
\* disliked article; no other term enters (in thousandths: 10 * sim_liked -
\* 5 * sim_disliked).
AdjustedScoreFromClosest ==
    \A p \in Pairs :
        (Gated(p) /\ trace[p].has_history) =>
            trace[p].adj =
                10 * Closest(p[2], FeedbackEmbeddings(p[1], 1) \cup TrackedEmbeddings(p[1]))
                - 5 * Closest(p[2], FeedbackEmbeddings(p[1], -1))

----------------------------------------------------------------------------
(* Properties of the entry points, under SpecBot *)

\* C19: every stored feedback row has signal +1 or -1, whether the bot's
\* callback or run_feedback recorded it.
FeedbackSignalIsVote ==
    \A k \in DOMAIN feedback : feedback[k].signal \in Signals

----------------------------------------------------------------------------
(* The time chat_with_retry sleeps *)

\* C21 as stated: a call whose every attempt failed with a retryable error
\* has slept base_delay * (2^5 - 1) seconds in total.
SleptTwoToTheFifth ==
    call.failures = MAX_RETRIES => call.slept = BASE_DELAY * (2 ^ MAX_RETRIES - 1)

\* C21: a call whose every attempt failed with a retryable error has slept
\* base_delay * (2^4 - 1) seconds in total (four sleeps, none after the fifth
\* attempt); the first wait is base_delay and the wait before each later
\* retry is double the previous one.
SleptTwoToTheFourth ==
    /\ [](call.failures = MAX_RETRIES =>
            call.slept = BASE_DELAY * (2 ^ (MAX_RETRIES - 1) - 1))
    /\ [][chatState = "calling" /\ chatState' = "sleeping" =>
            call'.last_wait = IF attempt = 1 THEN BASE_DELAY
                                             ELSE 2 * call.last_wait]_vars

AllAttemptsFailedAfterSleeping ==
    /\ chatState = "raised"
    /\ chatExc \in RETRYABLE
    /\ call.failures = MAX_RETRIES
    /\ call.last_wait = 2 * 2 * 2 * BASE_DELAY

----------------------------------------------------------------------------
(* The embedding of a scored article *)

\* C22: when score_item ran for an article whose embedding was already
\* stored, the embedding model was not invoked for it, and the stored vector
\* is the one that was stored before.
EmbeddingComputedAtMostOnce ==
    \A p \in Pairs :
        trace[p].state # "NEW" /\ trace[p].stored_before # NULL =>
            /\ ~trace[p].embedded
            /\ stored_embedding(items, p[2]) = trace[p].stored_before

----------------------------------------------------------------------------
(* build_preference_profile on its own: a caller builds the profile of a   *)
(* user (the first line of score_item) between operations that change the  *)
(* store: feedback, tracking, scoring, notification.                        *)

MaxProfileOps == 2      \* feedback, tracking and scoring operations made
MaxProfileRows == 8     \* feedback rows of a table the operations are made on

\* the topics of the score rows found: 17 distinct tags, "p8" in both rows
TopicsOld == <<"p1", "p2", "p3", "p4", "p5", "p6", "p7", "p8">>
TopicsNew == <<"p8", "q1", "q2", "q3", "q4", "q5", "q6", "q7", "q8">>

ProfileScoresBefore ==
    {[id |-> 1, user_id |-> 2, item_id |-> "a0", llm_score |-> 80,
      llm_topics |-> TopicsOld, llm_reason |-> "r1", notified |-> 1],
     [id |-> 2, user_id |-> 2, item_id |-> "a1", llm_score |-> 70,
      llm_topics |-> TopicsNew, llm_reason |-> "r2", notified |-> 0]}

VoteOf(u, i, sg, t) == [user_id |-> u, item_id |-> i, signal |-> sg, created_at |-> t]

\* the feedback found: none; four likes of user 2, the latest for another
\* article than the first three, and a dislike; or 31 likes and 21 dislikes
\* of user 2, the oldest like and the oldest dislike for an article of their
\* own and the latest like for an article with topics of its own
ProfileFeedbackBefore ==
    {<< >>,
     <<VoteOf(2, "a0", 1, 0), VoteOf(2, "a0", 1, 1), VoteOf(2, "a0", 1, 2),
       VoteOf(2, "a1", 1, 3), VoteOf(2, "a2", -1, 4)>>,
     [k \in 1..(PROFILE_LIKED_LIMIT + PROFILE_DISLIKED_LIMIT + 2) |->
        IF k = 1 THEN VoteOf(2, "a2", 1, 0)
        ELSE IF k <= PROFILE_LIKED_LIMIT THEN VoteOf(2, "a0", 1, k - 1)
        ELSE IF k = PROFILE_LIKED_LIMIT + 1 THEN VoteOf(2, "a1", 1, k - 1)
        ELSE IF k = PROFILE_LIKED_LIMIT + 2 THEN VoteOf(2, "a0", -1, 0)
        ELSE VoteOf(2, "a2", -1, k - PROFILE_LIKED_LIMIT - 2)]}

InitProfile ==
    /\ items = {[id |-> i, url |-> Url(i), summary |-> NULL, embedding |-> NULL] :
                    i \in ItemIds}
    /\ user_item_scores = ProfileScoresBefore
    /\ scoreSeq = Cardinality(ProfileScoresBefore)
    /\ feedback \in ProfileFeedbackBefore
    /\ tracked_articles = << >>
    /\ now = PROFILE_LIKED_LIMIT + 1
    /\ pc = "idle"
    /\ work = << >>
    /\ cur = <<0, "none">>
    /\ chatState = "idle"
    /\ attempt = 0
    /\ chatResp = NoResponse
    /\ chatExc = "none"
    /\ notifications = 0
    /\ call = NoCall
    /\ trace = NoTrace
    /\ scoreLog = [p \in Pairs |-> << >>]
    /\ fbLog = << >>
    /\ users = Users
    /\ user_feeds = {}
    /\ allowed = Users
    /\ groq_key = TRUE
    /\ run = 0
    /\ lastSend = "none"
    /\ handed = [p \in Pairs |-> 0]
    /\ inserts = [i \in ItemIds |-> 0]
    /\ profile = NoProfile
    /\ ingest = NoIngest

\* the operations made on the store since Init
ProfileOps ==
    Len(fbLog) + Len(tracked_articles) + (scoreSeq - Cardinality(ProfileScoresBefore))

\* operations are made on the tables below MaxProfileRows, MaxProfileOps of
\* them
ProfileOpsLeft == ProfileOps < MaxProfileOps /\ Len(feedback) < MaxProfileRows

\* profile = build_preference_profile(user_id), for the lists the two
\* queries return
BuildProfile(u) ==
    /\ \E liked \in get_liked_items(u, PROFILE_LIKED_LIMIT),
          disliked \in get_disliked_items(u, PROFILE_DISLIKED_LIMIT) :
            profile' = [user_id |-> u,
                        dict |-> build_preference_profile(u, liked, disliked)]
    /\ UNCHANGED <<storeVars, pollVars, regVars, chatVars, scoreLog, fbLog>>

\* save_feedback, from the bot's callback or run_feedback
ProfileVote(u, i, sg) ==
    /\ ProfileOpsLeft
    /\ feedback' = save_feedback(feedback, u, i, sg)
    /\ fbLog' = Append(fbLog, <<u, i, sg>>)
    /\ UNCHANGED <<items, user_item_scores, scoreSeq, tracked_articles, now, pollVars,
                   regVars, profile, chatVars, scoreLog>>

\* add_tracked_article, from /track: with the embedding or, when embedding
\* the page failed, without
ProfileTrack(u, emb) ==
    /\ ProfileOpsLeft
    /\ tracked_articles' = add_tracked_article(tracked_articles, u, TrackedUrl, emb)
    /\ UNCHANGED <<items, user_item_scores, scoreSeq, feedback, now, pollVars,
                   regVars, profile, chatVars, scoreLog, fbLog>>

\* save_user_score of a re-scoring
ProfileScore(u, i, j) ==
    /\ ProfileOpsLeft
    /\ SaveUserScore(u, i, j)

NextProfile ==
    \/ \E u \in Users : BuildProfile(u)
    \/ \E i \in {"a1", GhostItemId}, sg \in Signals : ProfileVote(2, i, sg)
    \/ \E u \in Users, emb \in {NULL, TrackedEmbedding} : ProfileTrack(u, emb)
    \/ \E j \in {x \in Judgements : ~below_threshold(x.score)} : ProfileScore(2, "a1", j)
    \/ MarkNotified(2, "a1")

SpecProfile == InitProfile /\ [][NextProfile]_vars

\* the titles T are those of the n most recent of the feedback rows R: with c
\* the created_at of the n-th most recent row, every row newer than c is in
\* T and no row older than c is
MostRecent(T, R, n) ==
    LET newer(t) == {k \in R : feedback[k].created_at > t}
        notOlder(t) == {k \in R : feedback[k].created_at >= t}
        c == IF Cardinality(R) <= n THEN -1
             ELSE CHOOSE t \in {feedback[k].created_at : k \in R} :
                    Cardinality(newer(t)) < n /\ n <= Cardinality(notOlder(t))
        of(K, i) == Cardinality({k \in K : feedback[k].item_id = i})
        inT(i) == Len(SelectSeq(T, LAMBDA x : x = Title(i)))
    IN  /\ Len(T) = IF Cardinality(R) <= n THEN Cardinality(R) ELSE n
        /\ \A i \in ItemIds : of(newer(c), i) <= inT(i) /\ inT(i) <= of(notOlder(c), i)

\* the topic tags of the articles with the titles T as user u's score rows
\* carry them, one list after the other
TopicsOfTitles(u, T) ==
    LET topics(x) ==
            LET s == {r \in user_item_scores : r.user_id = u /\ Title(r.item_id) = x}
            IN  IF s = {} THEN << >> ELSE (CHOOSE r \in s : TRUE).llm_topics
        RECURSIVE Build(_)
        Build(k) == IF k > Len(T) THEN << >> ELSE topics(T[k]) \o Build(k + 1)
    IN  Build(1)

\* TT lists the (at most n) most frequent tags of flat, the more frequent
\* first and, of two equally frequent, the one met first in flat.  Before is
\* a strict total order of the tags, so it is stated of neighbours and of
\* the last tag listed.
MostFrequent(TT, flat, n) ==
    LET count(t) == Len(SelectSeq(flat, LAMBDA e : e = t))
        first(t) == CHOOSE k \in DOMAIN flat :
                        flat[k] = t /\ \A m \in 1..(k - 1) : flat[m] # t
        Before(a, b) == \/ count(a) > count(b)
                        \/ count(a) = count(b) /\ first(a) < first(b)
        distinct == {flat[k] : k \in DOMAIN flat}
    IN  /\ \A k \in DOMAIN TT : TT[k] \in distinct
        /\ \A a \in 1..(Len(TT) - 1) : Before(TT[a], TT[a + 1])
        /\ Len(TT) = IF Cardinality(distinct) <= n THEN Cardinality(distinct) ELSE n
        /\ \A t \in distinct :
              (\A k \in DOMAIN TT : TT[k] # t) => Before(TT[Len(TT)], t)

\* C23: the profile build_preference_profile returns lists the titles of the
\* (at most 30) most recent liked and of the (at most 20) most recent
\* disliked feedback entries of the user, and its top_topics are the (at
\* most 15) most frequent topic tags of those liked articles, in descending
\* frequency, ties in first-encountered order.
ProfileFromMostRecentMostFrequent ==
    [][profile' # profile =>
        LET u == profile'.user_id
            d == profile'.dict
        IN  /\ MostRecent(d.liked_titles, SelectedFeedback(u, 1), 30)
            /\ MostRecent(d.disliked_titles, SelectedFeedback(u, -1), 20)
            /\ MostFrequent(d.top_topics, TopicsOfTitles(u, d.liked_titles), 15)]_vars

\* a profile built from more than 30 likes and more than 20 dislikes, with
\* more than 15 distinct tags, the oldest like and dislike left out
ProfileAtItsLimits ==
    /\ profile.user_id = 2
    /\ Cardinality(SelectedFeedback(2, 1)) > 30
    /\ Cardinality(SelectedFeedback(2, -1)) > 20
    /\ Len(profile.dict.liked_titles) = 30
    /\ Len(profile.dict.disliked_titles) = 20
    /\ \A k \in 1..30 : profile.dict.liked_titles[k] # Title("a2")
    /\ \A k \in 1..20 : profile.dict.disliked_titles[k] # Title("a0")
    /\ Len(profile.dict.top_topics) = 15
    /\ profile.dict.top_topics[1] = "p8"
    /\ profile.dict.top_topics[2] = "p1"
    /\ profile.dict.top_topics[15] = "q7"

----------------------------------------------------------------------------
(* Poll runs of users with different subscriptions *)

\* the user_feeds table found: each user with a feed of their own, user 2
\* without a subscription, the two users with the feeds swapped, every user
\* with every feed
SubscriptionsBefore ==
    {{<<1, "f1">>, <<2, "f2">>},
     {<<1, "f1">>, <<1, "f2">>},
     {<<1, "f2">>, <<2, "f1">>},
     Users \X Feeds}

InitSubscriptions ==
    /\ items = {OldItem}
    /\ user_item_scores = {OldScore}
    /\ scoreSeq = 1
    /\ feedback = << >>
    /\ tracked_articles = << >>
    /\ now = 5
    /\ pc = "idle"
    /\ work = << >>
    /\ cur = <<0, "none">>
    /\ chatState = "idle"
    /\ attempt = 0
    /\ chatResp = NoResponse
    /\ chatExc = "none"
    /\ notifications = 0
    /\ call = NoCall
    /\ trace = NoTrace
    /\ scoreLog = [p \in Pairs |-> << >>]
    /\ fbLog = << >>
    /\ users = Users
    /\ user_feeds \in SubscriptionsBefore
    /\ allowed = Users
    /\ groq_key \in BOOLEAN
    /\ run = 0
    /\ lastSend = "none"
    /\ handed = [p \in Pairs |-> 0]
    /\ inserts = [i \in ItemIds |-> 0]
    /\ profile = NoProfile
    /\ ingest = NoIngest

SpecSubscriptions == InitSubscriptions /\ [][Next]_vars

\* the feeds user u subscribes to
Subscribed(u) == {f \in Feeds : <<u, f>> \in user_feeds}

\* the articles feed f lists
Listed(f) == {FeedEntries(f)[k] : k \in DOMAIN FeedEntries(f)}

\* score_item has been invoked for the pair p
Scored(p) == trace[p].state # "NEW"

\* C24: the pairs a poll run sets out to score are pairs of a user and a new
\* item whose originating feed (the feed it was ingested from, for some order
\* of polling that yields the items stored) the user subscribes to; score_item
\* is invoked for no other pair, and a user without subscriptions is scored
\* for nothing and handed no notification.
ScoredOnlyFromSubscribedFeeds ==
    /\ [][run' # run /\ users # {} =>
            \E feed_urls \in ListsOf(UNION {get_user_feeds(u) : u \in users}) :
                LET polled == poll_feeds(items, feed_urls)
                IN  /\ items' = polled.items
                    /\ \A k \in DOMAIN work' :
                          \E n \in DOMAIN polled.new_items :
                             /\ polled.new_items[n].id = work'[k][2]
                             /\ polled.new_items[n].feed_url \in Subscribed(work'[k][1])]_vars
    /\ [][\A p \in Pairs : Scored(p)' /\ ~Scored(p) => work # << >> /\ Head(work) = p]_vars
    /\ [](\A p \in Pairs :
            Subscribed(p[1]) = {} => ~Scored(p) /\ handed[p] = 0)

\* a run that ingested a2 from f1 has ended with a2 scored for user 1, who
\* subscribes to f1, and not for user 2, who subscribes to f2 only
ScoredForSubscriberOnly ==
    /\ pc = "done"
    /\ Subscribed(1) = {"f1"}
    /\ Subscribed(2) = {"f2"}
    /\ inserts["a2"] = 1
    /\ Scored(<<1, "a2">>)
    /\ ~Scored(<<2, "a2">>)

\* C25: a poll run sets out to score every newly ingested article for every
\* user subscribed to a feed that lists it, also when several feeds list the
\* article and the user subscribes to only one of them.
EverySubscriberScored ==
    [][run' # run =>
        \A i \in ItemIds :
            (\E r \in items' : r.id = i) /\ ~(\E r \in items : r.id = i) =>
                \A u \in users :
                    (\E f \in Subscribed(u) : i \in Listed(f)) =>
                        \E k \in DOMAIN work' : work'[k] = <<u, i>>]_vars

----------------------------------------------------------------------------
(* The delivered flag of a score row *)

\* the score row of the pair p carries notified = 1
Delivered(p) ==
    \E r \in user_item_scores : r.user_id = p[1] /\ r.item_id = p[2] /\ r.notified = 1

\* C26: once the score row of a pair is marked notified, no save_user_score
\* and no mark_notified call sets the flag back: the pair stays delivered.
DeliveredIsMonotone ==
    [][\A p \in Pairs : Delivered(p) => Delivered(p)']_vars

----------------------------------------------------------------------------
(* Two poll runs at once: poll_feeds of each, one database statement per   *)
(* step, on the same store                                                 *)

Runs == {1, 2}

InitTwoPolls ==
    /\ items = {OldItem}
    /\ user_item_scores = {OldScore}
    /\ scoreSeq = 1
    /\ feedback = << >>
    /\ tracked_articles = << >>
    /\ now = 5
    /\ pc = "idle"
    /\ work = << >>
    /\ cur = <<0, "none">>
    /\ chatState = "idle"
    /\ attempt = 0
    /\ chatResp = NoResponse
    /\ chatExc = "none"
    /\ notifications = 0
    /\ call = NoCall
    /\ trace = NoTrace
    /\ scoreLog = [p \in Pairs |-> << >>]
    /\ fbLog = << >>
    /\ users = Users
    /\ user_feeds = Users \X Feeds
    /\ allowed = Users
    /\ groq_key = TRUE
    /\ run = 0
    /\ lastSend = "none"
    /\ handed = [p \in Pairs |-> 0]
    /\ inserts = [i \in ItemIds |-> 0]
    /\ profile = NoProfile
    /\ ingest = NoIngest

\* the two loops of poll_feeds: the entry at or after entry k of feed f, or
\* f beyond the last feed when the loops are through
RECURSIVE EntryAt(_, _, _)
EntryAt(feed_urls, f, k) ==
    IF f > Len(feed_urls) THEN [f |-> f, k |-> 1]
    ELSE IF k > Len(Take(FeedEntries(feed_urls[f]), FEED_ENTRY_LIMIT))
         THEN EntryAt(feed_urls, f + 1, 1)
         ELSE [f |-> f, k |-> k]

\* everything but the items table and the ingestions
ingestOther == <<user_item_scores, scoreSeq, feedback, tracked_articles, now, pc, work,
                 cur, notifications, trace, run, lastSend, handed, inserts, regVars,
                 profile, chatVars, scoreLog, fbLog>>

\* run r calls poll_feeds(list(all_feed_urls))
IngestStart(r, feed_urls) ==
    /\ ingest[r].stage = "idle"
    /\ ingest' = [ingest EXCEPT ![r] = [stage |-> "check", feed_urls |-> feed_urls,
                                         f |-> 1, k |-> 1, new_items |-> << >>]]
    /\ UNCHANGED <<items, ingestOther>>

\* `if not url or item_exists(url): continue` for the next entry, or
\* `return new_items` after the last
IngestCheck(r) ==
    /\ ingest[r].stage = "check"
    /\ LET at == EntryAt(ingest[r].feed_urls, ingest[r].f, ingest[r].k)
       IN  IF at.f > Len(ingest[r].feed_urls)
           THEN ingest' = [ingest EXCEPT ![r].stage = "returned", ![r].f = at.f,
                                         ![r].k = at.k]
           ELSE IF item_exists(items, Url(FeedEntries(ingest[r].feed_urls[at.f])[at.k]))
           THEN ingest' = [ingest EXCEPT ![r].f = at.f, ![r].k = at.k + 1]
           ELSE ingest' = [ingest EXCEPT ![r].stage = "insert", ![r].f = at.f,
                                         ![r].k = at.k]
    /\ UNCHANGED <<items, ingestOther>>

\* the entry passed the check and its text is fetched: insert_item(item);
\* new_items.append(item)
IngestInsert(r) ==
    /\ ingest[r].stage = "insert"
    /\ LET feed == ingest[r].feed_urls[ingest[r].f]
           i == FeedEntries(feed)[ingest[r].k]
       IN  /\ items' = insert_item(items, [id |-> i, url |-> Url(i),
                                           summary |-> NULL, embedding |-> NULL])
           /\ ingest' = [ingest EXCEPT
                            ![r].stage = "check",
                            ![r].k = @ + 1,
                            ![r].new_items = Append(@, [id |-> i, feed_url |-> feed])]
    /\ UNCHANGED ingestOther

NextTwoPolls ==
    \/ \E r \in Runs, feed_urls \in ListsOf(Feeds) : IngestStart(r, feed_urls)
    \/ \E r \in Runs : IngestCheck(r)
    \/ \E r \in Runs : IngestInsert(r)

SpecTwoPolls == InitTwoPolls /\ [][NextTwoPolls]_vars

\* run r returned or is about to return article i as new
ReturnedNew(r, i) ==
    \E n \in DOMAIN ingest[r].new_items : ingest[r].new_items[n].id = i

\* C27: of two poll runs interleaving on the same store, at most one has a
\* given article among its new items.
NewInAtMostOneRun ==
    \A i \in ItemIds : \A r1, r2 \in Runs :
        ReturnedNew(r1, i) /\ ReturnedNew(r2, i) => r1 = r2

----------------------------------------------------------------------------
(* has_history over time *)

\* build_preference_profile(u) returns has_history == true on the store as
\* it stands
HasHistoryNow(u) ==
    \E liked \in get_liked_items(u, PROFILE_LIKED_LIMIT) :
        profile_has_history(liked, get_tracked_embeddings(u))

\* C28: a user for whom build_preference_profile returns has_history == true
\* gets has_history == true after every further feedback, tracking, scoring
\* or notification operation.
HasHistoryIsMonotone ==
    [][\A u \in Users : HasHistoryNow(u) => HasHistoryNow(u)']_vars

\* user 2's profile was built warm from exactly five likes, and a dislike of
\* user 2 was recorded after it
WarmThenDislike ==
    /\ profile.user_id = 2
    /\ profile.dict.has_history
    /\ Len(profile.dict.liked_titles) = HAS_HISTORY_MIN_LIKED
    /\ profile.dict.tracked_embeddings = << >>
    /\ Cardinality(SelectedFeedback(2, 1)) = HAS_HISTORY_MIN_LIKED
    /\ Cardinality(SelectedFeedback(2, -1)) = 2
    /\ HasHistoryNow(2)

----------------------------------------------------------------------------
(* Feedback for ids no article carries *)

\* the feedback rows of user u with the signal sg, by whether their item_id
\* is the id of a stored article
VotesFor(u, sg, stored) ==
    {k \in DOMAIN feedback :
        /\ feedback[k].user_id = u
        /\ feedback[k].signal = sg
        /\ (\E r \in items : r.id = feedback[k].item_id) = stored}

AtMost(n, limit) == IF n <= limit THEN n ELSE limit

\* C29: save_feedback records a row whatever its item_id; a profile lists
\* one title per like (dislike) row of the user that references a stored
\* article, repeated likes of one article included, up to the limit, and
\* none for a row referencing no stored article; has_history counts those
\* like rows only.
UnknownItemFeedbackIgnored ==
    /\ [][Len(fbLog') > Len(fbLog) =>
            /\ Len(feedback') = Len(feedback) + 1
            /\ feedback'[Len(feedback')].item_id = fbLog'[Len(fbLog')][2]]_vars
    /\ [][profile' # profile =>
            LET u == profile'.user_id
                d == profile'.dict
                likes == Cardinality(VotesFor(u, 1, TRUE))
                dislikes == Cardinality(VotesFor(u, -1, TRUE))
            IN  /\ Len(d.liked_titles) = AtMost(likes, PROFILE_LIKED_LIMIT)
                /\ Len(d.disliked_titles) = AtMost(dislikes, PROFILE_DISLIKED_LIMIT)
                /\ \A k \in DOMAIN d.liked_titles :
                      \E j \in VotesFor(u, 1, TRUE) :
                         d.liked_titles[k] = Title(feedback[j].item_id)
                /\ \A k \in DOMAIN d.disliked_titles :
                      \E j \in VotesFor(u, -1, TRUE) :
                         d.disliked_titles[k] = Title(feedback[j].item_id)
                /\ d.has_history =
                      (likes >= HAS_HISTORY_MIN_LIKED \/ d.tracked_embeddings # << >>)]_vars

\* user 2 liked a0 three times and a1 once, then an id no article carries,
\* then a1 again: the profile built after that lists five titles, a1's
\* first and a0's three times, and is warm
ProfileAfterUnknownLike ==
    /\ Len(feedback) > 2
    /\ feedback[Len(feedback) - 1].item_id = GhostItemId
    /\ feedback[Len(feedback) - 1].signal = 1
    /\ feedback[Len(feedback)].item_id = "a1"
    /\ Cardinality(VotesFor(2, 1, FALSE)) = 1
    /\ Cardinality(VotesFor(2, 1, TRUE)) = HAS_HISTORY_MIN_LIKED
    /\ profile.user_id = 2
    /\ profile.dict.has_history
    /\ Len(profile.dict.liked_titles) = HAS_HISTORY_MIN_LIKED
    /\ profile.dict.liked_titles[1] = Title("a1")
    /\ Cardinality({k \in 1..HAS_HISTORY_MIN_LIKED :
                        profile.dict.liked_titles[k] = Title("a0")}) = 3

----------------------------------------------------------------------------
(* Errors chat_with_retry does not retry *)

\* the errors an attempt may raise that are none of the four retryable kinds
Unretried == {"AuthenticationError", "BadRequestError", "RuntimeError"}

\* C30: an attempt of chat_with_retry that raises an error other than the
\* four retryable kinds is made once: the error reaches the caller at that
\* step, nothing is slept for it, and the call makes no further attempt.
NonRetryablePropagatesAtOnce ==
    /\ [][\A e \in Unretried :
            /\ chatState = "calling"
            /\ \/ chatExc' = e
               \/ call'.failures = call.failures + 1 /\ call'.last_error = e
            => /\ chatState' = "raised"
               /\ chatExc' = e
               /\ attempt' = attempt
               /\ call'.attempts <= call.attempts + 1
               /\ call'.slept = call.slept]_vars
    /\ [][chatState = "raised" =>
            /\ chatState' \in {"raised", "idle"}
            /\ call'.attempts = call.attempts
            /\ call'.slept = call.slept]_vars

\* the first attempt of a call raised AuthenticationError, which reached the
\* caller with nothing slept
AuthenticationErrorRaisedFirst ==
    /\ chatState = "raised"
    /\ chatExc = "AuthenticationError"
    /\ call.attempts = 1
    /\ call.failures = 0
    /\ call.slept = 0
====
